---- MODULE Spec2Model ----
(***************************************************************************)
(* A model of base_vk_api.BaseVKAPI: parameter normalisation (_get_params), *)
(* response classification (parse_response) and their composition over a    *)
(* transport session (make_request).                                        *)
(*                                                                          *)
(* Python values are tagged records [t |-> <type>, v |-> <payload>]:        *)
(*   None / JSON null, int, str, list (a sequence of values), dict (a       *)
(*   function from string keys to values), a pydantic model instance and a  *)
(*   reference to a caller-owned dict object.                               *)
(***************************************************************************)
EXTENDS Integers, Sequences, FiniteSets, TLC

VARIABLES
    cfg,        \* client -> its attributes token, endpoint, api_version, lang, _session
    built,      \* client -> the attributes its constructor assigned (history)
    heap,       \* dict object -> its current contents (the caller's params dicts)
    orig,       \* dict object -> the contents the caller created it with (history)
    pre,        \* dict object -> its contents when the last normalising call began
    call,       \* the make_request call waiting in self._session.get, or NoCall
    last,       \* the last completed operation: its inputs, its steps and its outcome
    nCalls,     \* make_request calls started
    nGets       \* GETs handed to a session

vars == <<cfg, built, heap, orig, pre, call, last, nCalls, nGets>>

\* Bound on the number of make_request calls in one behaviour.
MaxCalls == 2

-----------------------------------------------------------------------------
(* Python values *)

None == [t |-> "null", v |-> "null"]
IntV(n) == [t |-> "int", v |-> n]
StrV(s) == [t |-> "str", v |-> s]
ListV(q) == [t |-> "list", v |-> q]
DictV(f) == [t |-> "dict", v |-> f]
RefV(d) == [t |-> "ref", v |-> d]
Instance(cls, foo) == [t |-> "model", v |-> [cls |-> cls, foo |-> foo]]

EmptyMap == [k \in {} |-> None]

DigitChar(d) == SubSeq("0123456789", d + 1, d + 1)

RECURSIVE NatToStr(_)
NatToStr(n) == IF n < 10 THEN DigitChar(n) ELSE NatToStr(n \div 10) \o DigitChar(n % 10)

\* str(p) for the element types the model draws: str, int, None.
PyStr(p) ==
    CASE p.t = "str" -> p.v
      [] p.t = "int" -> IF p.v < 0 THEN "-" \o NatToStr(0 - p.v) ELSE NatToStr(p.v)
      [] OTHER -> "None"

\* ",".join(strs)
RECURSIVE Join(_)
Join(strs) ==
    IF Len(strs) = 0 THEN ""
    ELSE IF Len(strs) = 1 THEN strs[1]
    ELSE strs[1] \o "," \o Join(Tail(strs))

IsDigits(s) ==
    /\ Len(s) > 0
    /\ \A i \in 1..Len(s) : \E d \in 0..9 : SubSeq(s, i, i) = DigitChar(d)

RECURSIVE ParseNat(_)
ParseNat(s) ==
    IF Len(s) = 0 THEN 0
    ELSE ParseNat(SubSeq(s, 1, Len(s) - 1)) * 10
         + (CHOOSE d \in 0..9 : SubSeq(s, Len(s), Len(s)) = DigitChar(d))

IsSubstring(needle, hay) ==
    \E i \in 1..(Len(hay) + 1) :
        /\ i + Len(needle) - 1 <= Len(hay)
        /\ SubSeq(hay, i, i + Len(needle) - 1) = needle

-----------------------------------------------------------------------------
(* pydantic models.  A constructor yields the set of results the installed   *)
(* pydantic release can produce: a str field given an int is coerced by      *)
(* pydantic 1 and rejected by pydantic 2, so both results are possible.      *)

Valid(v) == [exc |-> "", v |-> v]
Invalid(exc) == [exc |-> exc, v |-> None]

\* A field annotated int: an int is kept, a string of digits is converted.
IntField(x) ==
    CASE x.t = "int" -> {Valid(x)}
      [] x.t = "str" /\ IsDigits(x.v) -> {Valid(IntV(ParseNat(x.v)))}
      [] OTHER -> {Invalid("ValidationError")}

\* A field annotated str.
StrField(x) ==
    CASE x.t = "str" -> {Valid(x)}
      [] x.t = "int" -> {Valid(StrV(PyStr(x))), Invalid("ValidationError")}
      [] OTHER -> {Invalid("ValidationError")}

\* A field annotated Literal["bar"].
LiteralBarField(x) ==
    IF x = StrV("bar") THEN {Valid(x)} ELSE {Invalid("ValidationError")}

\* BaseVKErrorResponseError: error_code: int, error_msg: str; other keys are ignored.
BaseVKErrorResponseError(x) ==
    IF x.t # "dict" \/ ~({"error_code", "error_msg"} \subseteq DOMAIN x.v)
    THEN {Invalid("ValidationError")}
    ELSE { IF c.exc = "" /\ m.exc = ""
           THEN Valid([error_code |-> c.v, error_msg |-> m.v])
           ELSE Invalid("ValidationError") :
           c \in IntField(x.v["error_code"]), m \in StrField(x.v["error_msg"]) }

\* BaseVKErrorResponse(**resp_json): ** needs a mapping; the field error is validated.
BaseVKErrorResponse(resp_json) ==
    IF resp_json.t # "dict" THEN {Invalid("TypeError")}
    ELSE IF "error" \notin DOMAIN resp_json.v THEN {Invalid("ValidationError")}
    ELSE BaseVKErrorResponseError(resp_json.v["error"])

\* The callers' response models: MyResponseModel (foo: str) and
\* WallGetResponse (foo: Literal["bar"]).
Models == {"MyResponseModel", "WallGetResponse"}
NoModel == "None"

FooField(model, x) ==
    IF model = "WallGetResponse" THEN LiteralBarField(x) ELSE StrField(x)

\* model(**payload)
Construct(model, payload) ==
    IF payload.t # "dict" THEN {Invalid("TypeError")}
    ELSE IF "foo" \notin DOMAIN payload.v THEN {Invalid("ValidationError")}
    ELSE { IF f.exc = "" THEN Valid(Instance(model, f.v)) ELSE f :
           f \in FooField(model, payload.v["foo"]) }

-----------------------------------------------------------------------------
(* Responses and the outcome of a call *)

\* response.json() raised JSONDecodeError
NotJSON == [t |-> "notjson", v |-> "notjson"]

\* a requests.Response: an object (told apart by its address) and what its json() gives
Response(i, body) == [t |-> "response", id |-> i, body |-> body]

Return(v) ==
    [kind |-> "return", exc |-> "", message |-> None, response |-> None,
     error_code |-> None, error_msg |-> None, value |-> v]

\* VKAPIError.__init__ without its assignment of error_code
VKAPIError_DropsErrorCode(message, response, error_code, error_msg) ==
    [kind |-> "raise", exc |-> "VKAPIError", message |-> message, response |-> response,
     error_code |-> None, error_msg |-> error_msg, value |-> None]

\* VKAPIError(*args, response=, error_code=None, error_msg=None)
VKAPIError(message, response, error_code, error_msg) ==
    [kind |-> "raise", exc |-> "VKAPIError", message |-> message, response |-> response,
     error_code |-> error_code, error_msg |-> error_msg, value |-> None]

\* Any other exception that leaves the call.
Raise(exc) ==
    [kind |-> "raise", exc |-> exc, message |-> None, response |-> None,
     error_code |-> None, error_msg |-> None, value |-> None]

\* key in x: dict keys, list elements, substrings of a str; other types are not iterable.
SupportsIn(x) == x.t \in {"dict", "list", "str"}
PyIn(key, x) ==
    CASE x.t = "dict" -> key \in DOMAIN x.v
      [] x.t = "list" -> \E i \in 1..Len(x.v) : x.v[i] = StrV(key)
      [] OTHER -> IsSubstring(key, x.v)

\* the end of parse_response without its use of the model
ParsePayload_IgnoresModel(resp_json, model) ==
    IF resp_json.t # "dict" THEN {Raise("TypeError")}
    ELSE {Return(resp_json.v["response"])}

\* resp_json["response"] and what follows it
ParsePayload(resp_json, model) ==
    IF resp_json.t # "dict" THEN {Raise("TypeError")}
    ELSE IF model = NoModel THEN {Return(resp_json.v["response"])}
    ELSE { IF r.exc = "" THEN Return(r.v) ELSE Raise(r.exc) :
           r \in Construct(model, resp_json.v["response"]) }

\* parse_response once response.json() has given resp_json
ParseDecoded(response, resp_json, model) ==
    IF ~SupportsIn(resp_json) THEN {Raise("TypeError")}
    ELSE IF PyIn("error", resp_json)
    THEN { IF parsed_resp.exc = ""
           THEN VKAPIError(parsed_resp.v.error_msg, response,
                           parsed_resp.v.error_code, parsed_resp.v.error_msg)
           ELSE Raise(parsed_resp.exc) :
           parsed_resp \in BaseVKErrorResponse(resp_json) }
    ELSE IF ~PyIn("response", resp_json)
    THEN {VKAPIError(StrV("No \"response\" key found in response dict"),
                     response, None, None)}
    ELSE ParsePayload(resp_json, model)

\* parse_response with an except clause that does not match the decode error
ParseResponse_UncaughtDecodeError(response, model) ==
    IF response.body = NotJSON THEN {Raise("JSONDecodeError")}
    ELSE ParseDecoded(response, response.body, model)

\* parse_response(response=, model=): the set of possible outcomes
ParseResponse(response, model) ==
    IF response.body = NotJSON
    THEN {VKAPIError(StrV("Can't decode json response"), response, None, None)}
    ELSE ParseDecoded(response, response.body, model)

-----------------------------------------------------------------------------
(* The client *)

Clients == {"vk1", "vk2"}

\* Constructor arguments: the test fixture's client (every default) and a client
\* that overrides endpoint, api_version and lang.
DefaultEndpoint == "https://api.vk.com"
DefaultApiVersion == "5.131"
DefaultLang == "ru"
FixtureArgs ==
    [token |-> "some token value", endpoint |-> DefaultEndpoint,
     api_version |-> DefaultApiVersion, lang |-> DefaultLang]
CtorArgs ==
    { FixtureArgs,
      [token |-> "T2", endpoint |-> "https://example.com",
       api_version |-> "5.81", lang |-> "en"] }

\* BaseVKAPI.__init__: the four attributes and a fresh requests.Session()
BaseVKAPI(c, args) ==
    [token |-> args.token, endpoint |-> args.endpoint,
     api_version |-> args.api_version, lang |-> args.lang,
     session |-> "Session of " \o c]

\* a merge that keeps the keys the dict already holds
DictUpdate_KeepsExisting(a, b) ==
    [k \in (DOMAIN a) \cup (DOMAIN b) |-> IF k \in DOMAIN a THEN a[k] ELSE b[k]]

\* dict |= other
DictUpdate(a, b) ==
    [k \in (DOMAIN a) \cup (DOMAIN b) |-> IF k \in DOMAIN b THEN b[k] ELSE a[k]]

\* the loop of _get_params: every list value becomes ",".join(str(p) for p in it)
JoinLists(params) ==
    [key \in DOMAIN params |->
       IF params[key].t = "list"
       THEN StrV(Join([i \in 1..Len(params[key].v) |-> PyStr(params[key].v[i])]))
       ELSE params[key]]

\* the dict _get_params merges in
AuthParams(self) ==
    [access_token |-> StrV(self.token), v |-> StrV(self.api_version),
     lang |-> StrV(self.lang)]

\* _get_params that also stores the caller's lang on the client
GetParams_AdoptsCallerLang(self, params) ==
    LET merged == DictUpdate(JoinLists(params), AuthParams(self)) IN
    [self |-> IF "lang" \in DOMAIN params
              THEN [self EXCEPT !.lang = PyStr(params["lang"])] ELSE self,
     params |-> merged, ret |-> merged]

\* _get_params that merges into a new dict (params = params | {...})
GetParams_MergesIntoCopy(self, params) ==
    [self |-> self, params |-> JoinLists(params),
     ret |-> DictUpdate(JoinLists(params), AuthParams(self))]

\* _get_params(self, params): self and the passed dict afterwards, and the
\* contents of the dict it returns (the passed dict itself).
GetParams(self, params) ==
    LET merged == DictUpdate(JoinLists(params), AuthParams(self)) IN
    [self |-> self, params |-> merged, ret |-> merged]

\* the request URL built from the default endpoint, not from the attribute
MakeRequestUrl_DefaultEndpoint(self, method) == DefaultEndpoint \o "/method/" \o method

\* f"{self.endpoint}/method/{method}"
MakeRequestUrl(self, method) == self.endpoint \o "/method/" \o method

\* self._session.get(url, params=params_): the request the session is handed
SessionGet(session, url, params) == [session |-> session, url |-> url, params |-> params]

Methods == {"wall.get"}
DictIds == {"d1"}

\* The params dicts callers create.
ParamSets ==
    { [owner_id |-> IntV(1)],
      [foo |-> StrV("bar"), foolist |-> ListV(<<StrV("foo"), StrV("bar"), IntV(1)>>)],
      [access_token |-> ListV(<<StrV("x"), StrV("y")>>), v |-> StrV("0"),
       ids |-> ListV(<<IntV(10), IntV(2)>>)],
      [lang |-> IntV(7), ids |-> ListV(<< >>), name |-> StrV("a,b")],
      EmptyMap }

\* The decoded bodies transports hand back (or NotJSON when json() raises).
ErrorObj(code, msg) == DictV([error_code |-> code, error_msg |-> msg])
BodySeq ==
    << NotJSON,
       None, IntV(5), StrV("foo"), StrV("error"), StrV("no response"),
       ListV(<<StrV("foo"), StrV("ba")>>), ListV(<<StrV("error")>>),
       ListV(<<StrV("response")>>),
       DictV([notresponse |-> StrV("foo")]),
       DictV([response |-> ListV(<<StrV("foo"), StrV("bar")>>)]),
       DictV([response |-> DictV([foo |-> StrV("bar")])]),
       DictV([response |-> DictV([foo |-> StrV("baz"), extra |-> IntV(1)])]),
       DictV([response |-> None]),
       DictV([response |-> DictV(EmptyMap)]),
       DictV([error |-> ErrorObj(IntV(1), StrV("lala"))]),
       DictV([error |-> ErrorObj(StrV("7"), StrV("lala"))]),
       DictV([error |-> ErrorObj(StrV("abc"), StrV("lala"))]),
       DictV([error |-> ErrorObj(IntV(1), IntV(5))]),
       DictV([error |-> DictV([error_code |-> IntV(1)])]),
       DictV([error |-> DictV([error_code |-> IntV(5), error_msg |-> StrV(""),
                               request_params |-> ListV(<< >>)])]),
       DictV([error |-> ErrorObj(IntV(1), StrV("lala")),
              response |-> ListV(<<StrV("foo"), StrV("bar")>>)]),
       DictV([error |-> DictV(EmptyMap), response |-> DictV([foo |-> StrV("bar")])]),
       DictV([error |-> ErrorObj(IntV(1), StrV("lala"))]) >>

\* Response objects: the last one is a second object with the body of another.
Responses == { Response(i, BodySeq[i]) : i \in 1..Len(BodySeq) }

NoGet == SessionGet("", "", EmptyMap)
NoCall == [client |-> "", method |-> "", dict |-> "", model |-> NoModel,
           sent |-> NoGet, trace |-> << >>]
Completed(op, c, d, model, sent, trace, response, outcome) ==
    [op |-> op, client |-> c, dict |-> d, model |-> model, sent |-> sent,
     trace |-> trace, response |-> response, outcome |-> outcome]

\* Two constructed clients: the test fixture's and one with either argument set.
Init ==
    /\ \E a \in CtorArgs :
         cfg = [c \in Clients |-> BaseVKAPI(c, IF c = "vk1" THEN FixtureArgs ELSE a)]
    /\ built = cfg
    /\ heap \in [DictIds -> ParamSets]
    /\ orig = heap
    /\ pre = heap
    /\ call = NoCall
    /\ last = Completed("", "", "", NoModel, NoGet, << >>, None, Return(None))
    /\ nCalls = 0
    /\ nGets = 0

\* vk._get_params(params)
GetParamsCall(c, d) ==
    /\ call = NoCall
    /\ LET r == GetParams(cfg[c], heap[d]) IN
         /\ cfg' = [cfg EXCEPT ![c] = r.self]
         /\ heap' = [heap EXCEPT ![d] = r.params]
         /\ pre' = [pre EXCEPT ![d] = heap[d]]
         /\ last' = Completed("_get_params", c, d, NoModel, NoGet, << >>, None,
                              IF r.ret = r.params THEN Return(RefV(d))
                              ELSE Return(DictV(r.ret)))
    /\ UNCHANGED <<built, orig, call, nCalls, nGets>>

\* vk.parse_response(response=response, model=model), on either client:
\* parse_response reads and writes no attribute of self
ParseResponseCall(response, model) ==
    /\ call = NoCall
    /\ \E outcome \in ParseResponse(response, model) :
         last' = Completed("parse_response", "", "", model, NoGet, <<"parse_response">>,
                           response, outcome)
    /\ UNCHANGED <<cfg, built, heap, orig, pre, call, nCalls, nGets>>

\* vk.make_request(method=, params=, model=) up to the point where the session
\* has been handed the GET and the call waits for the transport
MakeRequestSend(c, method, d, model) ==
    /\ call = NoCall
    /\ nCalls < MaxCalls
    /\ LET r == GetParams(cfg[c], heap[d]) IN
         /\ cfg' = [cfg EXCEPT ![c] = r.self]
         /\ heap' = [heap EXCEPT ![d] = r.params]
         /\ pre' = [pre EXCEPT ![d] = heap[d]]
         /\ call' = [client |-> c, method |-> method, dict |-> d, model |-> model,
                     sent |-> SessionGet(r.self.session, MakeRequestUrl(r.self, method),
                                         r.ret),
                     trace |-> <<"_get_params", "get">>]
    /\ nCalls' = nCalls + 1
    /\ nGets' = nGets + 1
    /\ UNCHANGED <<built, orig, last>>

\* the session returns a response: make_request parses it and ends as the parse ends
TransportReturns(response) ==
    /\ call # NoCall
    /\ \E outcome \in ParseResponse(response, call.model) :
         last' = Completed("make_request", call.client, call.dict, call.model, call.sent,
                           Append(call.trace, "parse_response"), response, outcome)
    /\ call' = NoCall
    /\ UNCHANGED <<cfg, built, heap, orig, pre, nCalls, nGets>>

\* the session raises: the exception leaves make_request as it is
TransportRaises ==
    /\ call # NoCall
    /\ last' = Completed("make_request", call.client, call.dict, call.model, call.sent,
                         call.trace, None, Raise("requests.RequestException"))
    /\ call' = NoCall
    /\ UNCHANGED <<cfg, built, heap, orig, pre, nCalls, nGets>>

\* the caller assigns vk.endpoint between calls
SetEndpoint(c, endpoint) ==
    /\ call = NoCall
    /\ cfg[c].endpoint # endpoint
    /\ cfg' = [cfg EXCEPT ![c].endpoint = endpoint]
    /\ UNCHANGED <<built, heap, orig, pre, call, last, nCalls, nGets>>

Next ==
    \/ \E c \in Clients, d \in DictIds : GetParamsCall(c, d)
    \/ \E response \in Responses, model \in Models \cup {NoModel} :
         ParseResponseCall(response, model)
    \/ \E c \in Clients, method \in Methods, d \in DictIds, model \in Models \cup {NoModel} :
         MakeRequestSend(c, method, d, model)
    \/ \E response \in Responses : TransportReturns(response)
    \/ TransportRaises

Spec == Init /\ [][Next]_vars

\* Sequences of make_request calls by callers that also reassign a client's
\* endpoint attribute between calls.
NextAttr ==
    \/ \E c \in Clients, method \in Methods, d \in DictIds, model \in Models \cup {NoModel} :
         MakeRequestSend(c, method, d, model)
    \/ \E response \in Responses : TransportReturns(response)
    \/ TransportRaises
    \/ \E c \in Clients, endpoint \in {a.endpoint : a \in CtorArgs} : SetEndpoint(c, endpoint)

SpecAttr == Init /\ [][NextAttr]_vars

-----------------------------------------------------------------------------
(* What the statements below talk about *)

\* parse_response ran on last.response (directly, or as the last step of make_request)
Parsed == last.op \in {"parse_response", "make_request"} /\ last.response # None
Body == last.response.body
Outcome == last.outcome
IsDictWith(x, key) == x.t = "dict" /\ key \in DOMAIN x.v

DecodeFailureMessage == StrV("Can't decode json response")
MissingResponseMessage == StrV("No \"response\" key found in response dict")

\* The normalising call that ran last, while nothing has run since: the
\* make_request call in flight, or the completed _get_params / make_request.
Normalised == call # NoCall \/ last.op \in {"_get_params", "make_request"}
NormClient == IF call # NoCall THEN call.client ELSE last.client
NormDict == IF call # NoCall THEN call.dict ELSE last.dict
NormResult ==
    IF call # NoCall THEN call.sent.params
    ELSE IF last.op = "make_request" THEN last.sent.params
    ELSE heap[last.dict]

ReservedKeys == {"access_token", "v", "lang"}

\* the elements' string forms joined by commas, built from the last element backwards
RECURSIVE CommaJoined(_)
CommaJoined(elems) ==
    IF Len(elems) = 0 THEN ""
    ELSE IF Len(elems) = 1 THEN PyStr(elems[1])
    ELSE CommaJoined(SubSeq(elems, 1, Len(elems) - 1)) \o "," \o PyStr(elems[Len(elems)])

\* the mapping a client with attributes self is to send for the mapping input
IsNormalForm(self, input, out) ==
    /\ DOMAIN out = (DOMAIN input) \cup ReservedKeys
    /\ out["access_token"] = StrV(self.token)
    /\ out["v"] = StrV(self.api_version)
    /\ out["lang"] = StrV(self.lang)
    /\ \A key \in (DOMAIN input) \ ReservedKeys :
         IF input[key].t = "list"
         THEN out[key] = StrV(CommaJoined(input[key].v))
         ELSE out[key] = input[key]

-----------------------------------------------------------------------------
\* C1: every parse_response (also as the last step of make_request) either
\* returns a payload or raises VKAPIError; no other exception type leaves it.
C1_PayloadOrVKAPIError ==
    Parsed => (Outcome.kind = "return" \/ Outcome.exc = "VKAPIError")

\* C2: a body that is not JSON gives VKAPIError "Can't decode json response"
\* carrying the very response that was passed in, with error_code and error_msg
\* None, and nothing else of the outcome set.
C2_DecodeFailure ==
    (Parsed /\ Body = NotJSON) =>
        Outcome = [kind |-> "raise", exc |-> "VKAPIError", message |-> DecodeFailureMessage,
                   response |-> last.response, error_code |-> None, error_msg |-> None,
                   value |-> None]

C2_Witness ==
    /\ Parsed /\ Body = NotJSON
    /\ last.op = "make_request"
    /\ Outcome.exc = "VKAPIError"

\* C3 as stated: a body with an "error" object holding error_code and error_msg
\* gives VKAPIError carrying exactly the body's two values, a message equal to
\* error_msg and the response that was passed in.
HasErrorObject(x) ==
    /\ IsDictWith(x, "error")
    /\ x.v["error"].t = "dict"
    /\ {"error_code", "error_msg"} \subseteq DOMAIN x.v["error"].v
ApiErrorOf(response) ==
    [kind |-> "raise", exc |-> "VKAPIError",
     message |-> response.body.v["error"].v["error_msg"], response |-> response,
     error_code |-> response.body.v["error"].v["error_code"],
     error_msg |-> response.body.v["error"].v["error_msg"], value |-> None]
C3_ApiErrorVerbatim ==
    (Parsed /\ HasErrorObject(Body)) => Outcome = ApiErrorOf(last.response)

\* C3 amended: the same for an error_code that is a JSON integer and an error_msg
\* that is a JSON string.
WellTypedErrorObject(x) ==
    /\ HasErrorObject(x)
    /\ x.v["error"].v["error_code"].t = "int"
    /\ x.v["error"].v["error_msg"].t = "str"
C3_ApiErrorWellTyped ==
    (Parsed /\ WellTypedErrorObject(Body)) => Outcome = ApiErrorOf(last.response)

C3_Witness ==
    /\ Parsed /\ WellTypedErrorObject(Body)
    /\ Outcome.exc = "VKAPIError"
    /\ Outcome.error_code = IntV(5)
    /\ "request_params" \in DOMAIN Body.v["error"].v

\* C4: a decoded body that is not a dict with a "response" key (and not a dict
\* with an "error" key) gives VKAPIError 'No "response" key found in response dict'
\* carrying the response that was passed in.
C4_MissingResponseField ==
    (Parsed /\ Body # NotJSON /\ ~IsDictWith(Body, "response") /\ ~IsDictWith(Body, "error")) =>
        Outcome = [kind |-> "raise", exc |-> "VKAPIError", message |-> MissingResponseMessage,
                   response |-> last.response, error_code |-> None, error_msg |-> None,
                   value |-> None]

\* C5: _get_params raises nothing and yields the mapping in which every list is
\* replaced by its comma-joined string forms in order, every other value under a
\* non-reserved key is kept, and access_token, v and lang are the client's, also
\* over colliding keys of the caller; e.g. ["foo", "bar", 1] becomes "foo,bar,1".
C5_Normalisation ==
    Normalised =>
        /\ IsNormalForm(cfg[NormClient], pre[NormDict], NormResult)
        /\ last.op = "_get_params" => Outcome.kind = "return"
        /\ ("foolist" \in DOMAIN orig[NormDict]) => NormResult["foolist"] = StrV("foo,bar,1")
        /\ ("ids" \in DOMAIN orig[NormDict] /\ "v" \in DOMAIN orig[NormDict])
             => NormResult["ids"] = StrV("10,2")

C5_Witness ==
    /\ last.op = "_get_params" /\ call = NoCall
    /\ pre[last.dict] = orig[last.dict]
    /\ "access_token" \in DOMAIN orig[last.dict]
    /\ orig[last.dict]["access_token"].t = "list"
    /\ heap[last.dict]["access_token"] = StrV(cfg[last.client].token)
    /\ heap[last.dict]["ids"] = StrV("10,2")

\* C6 as stated: a dict body with a "response" key and no "error" key makes
\* parse_response return: the value under "response" itself without a model, an
\* instance of the model built from that value's fields with one.
Payload == Body.v["response"]
Accepts(model, payload) ==
    /\ IsDictWith(payload, "foo")
    /\ IF model = "WallGetResponse" THEN payload.v["foo"] = StrV("bar")
       ELSE payload.v["foo"].t = "str"
ExpectedGet(c, method, d) ==
    [session |-> built[c].session,
     url |-> cfg[c].endpoint \o "/method/" \o method,
     params |-> heap[d]]
C7_MakeRequestPipeline ==
    /\ nGets = nCalls
    /\ call # NoCall =>
         /\ call.trace = <<"_get_params", "get">>
         /\ call.sent = ExpectedGet(call.client, call.method, call.dict)
         /\ IsNormalForm(cfg[call.client], pre[call.dict], call.sent.params)
    /\ last.op = "make_request" =>
         /\ last.sent.session = built[last.client].session
         /\ IF last.response = None
            THEN /\ last.trace = <<"_get_params", "get">>
                 /\ Outcome.kind = "raise"
                 /\ Outcome.exc = "requests.RequestException"
            ELSE /\ last.trace = <<"_get_params", "get", "parse_response">>
                 /\ Outcome \in ParseResponse(last.response, last.model)

C7_Witness ==
    /\ call # NoCall
    /\ nCalls = 2
    /\ last.op = "make_request"
    /\ Outcome.exc = "VKAPIError"
    /\ call.client = "vk1"
    /\ cfg["vk1"].endpoint # built["vk1"].endpoint
    /\ call.sent.url = "https://example.com/method/wall.get"

\* C8: a dict body with an "error" key, with or without a "response" key, always
\* gives VKAPIError of the api-error kind: never a returned payload, never the
\* missing-response-field error.
C8_ErrorTakesPrecedence ==
    (Parsed /\ IsDictWith(Body, "error")) =>
        /\ Outcome.kind = "raise"
        /\ Outcome.exc = "VKAPIError"
        /\ Outcome.message # MissingResponseMessage
        /\ Outcome.message # DecodeFailureMessage

\* C9: whatever calls have run and however they ended, every client's token,
\* endpoint, api_version, lang and session are those its constructor assigned,
\* each client has a session of its own, and what a client would make of a
\* mapping is decided by its own attributes alone.
C9_ConfigurationFrame ==
    /\ cfg = built
    /\ \A c1 \in Clients, c2 \in Clients : c1 # c2 => cfg[c1].session # cfg[c2].session
    /\ \A c \in Clients, d \in DictIds :
         IsNormalForm(built[c], heap[d], GetParams(cfg[c], heap[d]).ret)

C9_Witness ==
    /\ nCalls >= 2
    /\ last.op = "make_request" /\ last.client = "vk2"
    /\ Outcome.kind = "raise"
    /\ cfg["vk2"].token # cfg["vk1"].token
    /\ heap[last.dict]["access_token"] = StrV(cfg["vk2"].token)
    /\ pre[last.dict]["access_token"] = StrV(cfg["vk1"].token)

\* C10: _get_params works on the caller's dict itself and returns it, and passing
\* the same dict again, to any client, sends what that client would send for a
\* fresh copy of the mapping the dict was created with.
C10_ReuseIsSafe ==
    Normalised =>
        /\ heap[NormDict] = NormResult
        /\ last.op = "_get_params" => Outcome.value = RefV(last.dict)
        /\ IsNormalForm(cfg[NormClient], orig[NormDict], NormResult)

C10_Witness ==
    /\ call # NoCall /\ nCalls >= 2
    /\ pre[call.dict] # orig[call.dict]
    /\ "foolist" \in DOMAIN orig[call.dict]
    /\ pre[call.dict]["access_token"] # StrV(cfg[call.client].token)
    /\ call.sent.params["access_token"] = StrV(cfg[call.client].token)
    /\ call.sent.params["foolist"] = StrV("foo,bar,1")

====
